---- MODULE Spec2Model ----
(***************************************************************************)
(* Asset storage layer of banana-slides: FileService (file_service.py),    *)
(* the material handlers (material_controller.py), the Material record     *)
(* (models/material.py) and the file-serving routes (file_controller.py).  *)
(*                                                                         *)
(* A name (file name, project id, page id, url, relative path) is a        *)
(* sequence of one-character strings, so that secure_filename, rsplit,     *)
(* lower(), Path.stem/suffix, f-strings and path joins are computed        *)
(* character by character, as the code computes them.  A path under the    *)
(* upload folder is a sequence of names (its components).                  *)
(***************************************************************************)
EXTENDS Integers, Sequences, FiniteSets, TLC

VARIABLES
    dirs,       \* directories that exist under the upload folder (set of paths; <<>> is the folder)
    files,      \* regular files under the upload folder: path -> content
    materials,  \* rows of the materials table, in commit order
    now,        \* time.time() * 1000, truncated to an integer
    req,        \* the controller request in flight (its position and locals)
    last,       \* the last completed call: operation, arguments, result
    calls       \* calls of the service running concurrently: caller -> position and locals

vars == <<dirs, files, materials, now, req, last, calls>>

----------------------------------------------------------------------------
(* Characters and strings                                                  *)

UpperCase == <<"A","B","C","D","E","F","G","H","I","J","K","L","M",
               "N","O","P","Q","R","S","T","U","V","W","X","Y","Z">>
LowerCase == <<"a","b","c","d","e","f","g","h","i","j","k","l","m",
               "n","o","p","q","r","s","t","u","v","w","x","y","z">>
Digit == <<"0","1","2","3","4","5","6","7","8","9">>

Range(s) == {s[i] : i \in 1..Len(s)}

\* str.lower() on one character
LowerChar(c) ==
    IF \E i \in 1..26 : UpperCase[i] = c
    THEN LowerCase[CHOOSE i \in 1..26 : UpperCase[i] = c]
    ELSE c

\* str.lower()
Lower(s) == [i \in 1..Len(s) |-> LowerChar(s[i])]

\* '.' in s
Contains(s, c) == \E i \in 1..Len(s) : s[i] = c

\* s.rfind(c), 1-based; 0 when absent
RFind(s, c) ==
    IF Contains(s, c)
    THEN CHOOSE i \in 1..Len(s) : s[i] = c /\ \A j \in (i+1)..Len(s) : s[j] # c
    ELSE 0

\* s.rsplit(c, 1)[1]
RSplitTail(s, c) == SubSeq(s, RFind(s, c) + 1, Len(s))

\* str(n) for a non-negative integer
RECURSIVE IntStr(_)
IntStr(n) == IF n < 10 THEN <<Digit[n + 1]>> ELSE IntStr(n \div 10) \o <<Digit[(n % 10) + 1]>>

\* the characters of s that are in keep, in order
RECURSIVE Filter(_, _)
Filter(s, keep) ==
    IF s = <<>> THEN <<>>
    ELSE (IF Head(s) \in keep THEN <<Head(s)>> ELSE <<>>) \o Filter(Tail(s), keep)

\* s.replace(a, b) for single characters
Replace(s, a, b) == [i \in 1..Len(s) |-> IF s[i] = a THEN b ELSE s[i]]

\* s.lstrip(chars) / s.rstrip(chars) / s.strip(chars)
RECURSIVE LStrip(_, _)
LStrip(s, chars) ==
    IF s # <<>> /\ Head(s) \in chars THEN LStrip(Tail(s), chars) ELSE s
RECURSIVE RStrip(_, _)
RStrip(s, chars) ==
    IF s # <<>> /\ s[Len(s)] \in chars THEN RStrip(SubSeq(s, 1, Len(s) - 1), chars) ELSE s
Strip(s, chars) == RStrip(LStrip(s, chars), chars)

\* "_".join(s.split()): whitespace runs become one "_", none at the ends
RECURSIVE JoinRuns(_)
JoinRuns(s) ==
    IF s = <<>> THEN <<>>
    ELSE IF Head(s) = " "
         THEN (IF Len(s) > 1 /\ s[2] = " " THEN <<>> ELSE <<"_">>) \o JoinRuns(Tail(s))
         ELSE <<Head(s)>> \o JoinRuns(Tail(s))
SplitJoin(s) == JoinRuns(Strip(s, {" "}))

Ascii == Range(UpperCase) \cup Range(LowerCase) \cup Range(Digit)
         \cup {"_", ".", "-", " ", "/", "*", "?"}
SafeChars == Range(UpperCase) \cup Range(LowerCase) \cup Range(Digit) \cup {"_", ".", "-"}

\* werkzeug.utils.secure_filename: drop what does not encode to ASCII, turn path
\* separators into spaces, join the whitespace-separated pieces with "_", drop
\* every character outside [A-Za-z0-9_.-], strip "." and "_" from both ends
secure_filename(filename) ==
    Strip(Filter(SplitJoin(Replace(Filter(filename, Ascii), "/", " ")), SafeChars),
          {".", "_"})

\* pathlib: PurePath(name).suffix and .stem
Suffix(name) ==
    LET i == RFind(name, ".")
    IN  IF 1 < i /\ i < Len(name) THEN SubSeq(name, i, Len(name)) ELSE <<>>
Stem(name) ==
    LET i == RFind(name, ".")
    IN  IF 1 < i /\ i < Len(name) THEN SubSeq(name, 1, i - 1) ELSE name

\* str(path) of a relative path: its components joined by "/"
RECURSIVE StrPath(_)
StrPath(p) ==
    IF p = <<>> THEN <<>>
    ELSE IF Len(p) = 1 THEN p[1]
    ELSE p[1] \o <<"/">> \o StrPath(Tail(p))

\* the components of a path string (pathlib drops empty components)
RECURSIVE SplitPath(_)
SplitPath(s) ==
    IF s = <<>> THEN <<>>
    ELSE IF ~Contains(s, "/") THEN <<s>>
    ELSE LET i == CHOOSE k \in 1..Len(s) : s[k] = "/" /\ \A j \in 1..(k-1) : s[j] # "/"
         IN  (IF i = 1 THEN <<>> ELSE <<SubSeq(s, 1, i - 1)>>)
             \o SplitPath(SubSeq(s, i + 1, Len(s)))

\* PurePath(s).name: the last component of a path string
PathName(s) == LET p == SplitPath(s) IN IF p = <<>> THEN <<>> ELSE p[Len(p)]

----------------------------------------------------------------------------
(* Fixed names of the layout                                               *)

TEMPLATE == <<"t","e","m","p","l","a","t","e">>
PAGES == <<"p","a","g","e","s">>
MATERIALS == <<"m","a","t","e","r","i","a","l","s">>
USER_TEMPLATES == <<"u","s","e","r","-","t","e","m","p","l","a","t","e","s">>
FILES_PREFIX == <<"/","f","i","l","e","s">>
PNG == <<"p","n","g">>
\* the configured UPLOAD_FOLDER, an absolute path string
UPLOAD_FOLDER == <<"/","u","p">>

\* Python's None: a value no character string equals
None == <<"None">>
\* no call before
NoPrev == [op |-> "none", args |-> <<>>, ret |-> None, seen |-> None]
\* no call completed yet
NoCall == [op |-> "none", args |-> <<>>, ret |-> None, seen |-> None, prev |-> NoPrev]

----------------------------------------------------------------------------
(* Inputs                                                                  *)

\* the latest millisecond the clock reaches
MaxClock == 1
\* the most controller requests served
MaxRequests == 2
\* the most callers that call the service at the same time
MaxCallers == 2
Callers == 1..MaxCallers
NotCalling == [pc |-> "idle"]

\* ids of the rows of the projects table
Projects == {<<"p","1">>, <<"p","2">>}
\* an id no project has
UnknownProject == <<"p","9">>
\* contents of uploaded files and of generated images
Payloads == {"A", "B"}

\* template uploads (FileStorage: filename and content): a plain name with either
\* content, an upper-case extension, a third extension, no extension, and a name
\* whose stem has no ASCII character
TemplateUploads ==
    { [filename |-> <<"a",".","p","n","g">>, content |-> "A"],
      [filename |-> <<"a",".","p","n","g">>, content |-> "B"],
      [filename |-> <<"b",".","J","P","G">>, content |-> "A"],
      [filename |-> <<"c",".","g","i","f">>, content |-> "B"],
      [filename |-> <<"l","o","g","o">>, content |-> "B"],
      [filename |-> <<"图",".","j","p","g">>, content |-> "A"] }

\* version_number: Optional[int]
NoVersion == [given |-> FALSE, n |-> 0]
Version(n) == [given |-> TRUE, n |-> n]

\* calls of save_generated_image (without the image): one call, and the calls that
\* differ from it in the version, in having no version, in the page, in the project
PageCalls ==
    LET call(pid, page, fmt, v) ==
            [project_id |-> pid, page_id |-> page, image_format |-> fmt,
             version_number |-> v]
    IN  { call(<<"p","1">>, <<"s","1">>, <<"P","N","G">>, Version(1)),
          call(<<"p","1">>, <<"s","1">>, <<"P","N","G">>, Version(12)),
          call(<<"p","1">>, <<"s","1">>, <<"P","N","G">>, NoVersion),
          call(<<"p","1">>, <<"s","2">>, <<"P","N","G">>, Version(1)),
          call(<<"p","2">>, <<"s","1">>, <<"J","P","E","G">>, Version(1)) }

\* request.args.get('project_id'): absent, or a string
NoQuery == [given |-> FALSE, value |-> <<>>]
Query(v) == [given |-> TRUE, value |-> v]

\* request.files['file']: absent, or a FileStorage
NoFile == [present |-> FALSE, filename |-> <<>>, content |-> "A"]
Upload(filename, content) == [present |-> TRUE, filename |-> filename, content |-> content]

NONE_WORD == <<"n","o","n","e">>
ALL_WORD == <<"a","l","l">>

\* requests of upload_material: an upload into the route's project, the same name
\* with another content, a name with a space and an upper-case extension, the
\* project_id query values 'none', 'all', '' and a project, an unknown project, and
\* the uploads the handler rejects
UploadMaterialRequests ==
    LET r(pid, q, f) == [project_id |-> pid, query |-> q, file |-> f]
        p1 == <<"p","1">>
        apng == <<"a",".","p","n","g">>
    IN  { r(p1, NoQuery, Upload(apng, "A")),
          r(p1, NoQuery, Upload(apng, "B")),
          r(p1, NoQuery, Upload(<<"b"," ","c",".","J","P","G">>, "A")),
          r(p1, Query(NONE_WORD), Upload(apng, "A")),
          r(p1, Query(ALL_WORD), Upload(apng, "A")),
          r(p1, Query(<<>>), Upload(apng, "A")),
          r(UnknownProject, Query(<<"p","2">>), Upload(apng, "A")),
          r(UnknownProject, NoQuery, Upload(apng, "A")),
          r(p1, NoQuery, NoFile),
          r(p1, NoQuery, Upload(<<>>, "A")),
          r(p1, NoQuery, Upload(<<"x",".","e","x","e">>, "A")),
          r(p1, NoQuery, Upload(<<"图",".","p","n","g">>, "A")) }

\* requests of upload_material_global
UploadGlobalRequests ==
    LET r(q, f) == [project_id |-> None, query |-> q, file |-> f]
        apng == <<"a",".","p","n","g">>
    IN  { r(NoQuery, Upload(apng, "A")),
          r(Query(NONE_WORD), Upload(apng, "B")),
          r(Query(<<"p","1">>), Upload(apng, "A")),
          r(Query(ALL_WORD), Upload(apng, "A")),
          r(Query(UnknownProject), Upload(apng, "A")),
          r(NoQuery, NoFile) }

\* requests of generate_material_image: a JSON request, a form with a reference
\* image and an extra image, a prompt of blanks, an unknown project
GenerateRequests ==
    LET r(pid, prompt, refs) == [project_id |-> pid, prompt |-> prompt, refs |-> refs]
    IN  { r(<<"p","1">>, <<"c","a","t">>, {}),
          r(<<"p","2">>, <<" ","c","a","t">>,
            {Upload(<<"r",".","p","n","g">>, "A"), Upload(<<"e",".","p","n","g">>, "B")}),
          r(<<"p","1">>, <<" "," ">>, {}),
          r(UnknownProject, <<"c","a","t">>, {}) }

\* what ai_service.generate_image gives: an image, nothing, or an exception
AIOutcomes == {"A", "B", "None", "raises"}

\* how file.save(path) ends: written; open() raises; a write raises after open()
\* created or truncated the file
SaveOutcomes == {"ok", "open_raises", "write_raises"}
\* content of a file whose write did not complete
Partial == "partial"
\* how db.session.commit() ends
CommitOutcomes == {"ok", "raises"}

----------------------------------------------------------------------------
(* The filesystem under the upload folder                                  *)

\* Path.mkdir(exist_ok=True, parents=True)
Mkdir(d, path) == d \cup {SubSeq(path, 1, k) : k \in 0..Len(path)}

\* open(path, "wb") and write: creates the file or replaces its content
WriteFile(fs, path, content) ==
    [q \in (DOMAIN fs) \cup {path} |-> IF q = path THEN content ELSE fs[q]]

\* a bug: the whole directory of the first path is emptied
Unlink_Siblings(fs, gone) ==
    [q \in {f \in DOMAIN fs :
                \A g \in gone : SubSeq(f, 1, Len(f) - 1) # SubSeq(g, 1, Len(g) - 1)} |-> fs[q]]

\* Path.unlink() of each path of gone
Unlink(fs, gone) == [q \in (DOMAIN fs) \ gone |-> fs[q]]

IsPrefix(dir, path) == Len(dir) <= Len(path) /\ SubSeq(path, 1, Len(dir)) = dir

\* Path.iterdir(), regular files only
FilesIn(fs, dir) == {f \in DOMAIN fs : Len(f) = Len(dir) + 1 /\ IsPrefix(dir, f)}

\* a bug: only the files directly in the directory are removed
RmtreeFiles_Shallow(fs, path) == Unlink(fs, FilesIn(fs, path))

\* a bug: all that is under the directory above is removed
RmtreeFiles_Parent(fs, path) ==
    Unlink(fs, {f \in DOMAIN fs : IsPrefix(SubSeq(path, 1, Len(path) - 1), f)})

\* shutil.rmtree(path): the directory, and all that is under it
RmtreeDirs(d, path) == {q \in d : ~IsPrefix(path, q)}
RmtreeFiles(fs, path) == Unlink(fs, {f \in DOMAIN fs : IsPrefix(path, f)})

\* the record of a completed call.  seen is what the call found before it acted,
\* prev is the call completed just before it when that call had the same target
\* (NoPrev otherwise): both are kept to state properties of two calls in a row
Call(op, args, ret, seen, prev) ==
    [op |-> op, args |-> args, ret |-> ret, seen |-> seen, prev |-> prev]

\* the last call, when it was one of ops with the same arguments at keys
Before(ops, args, keys) ==
    IF last.op \in ops /\ \A k \in keys : last.args[k] = args[k]
    THEN [op |-> last.op, args |-> last.args, ret |-> last.ret, seen |-> last.seen]
    ELSE NoPrev

\* the same, without what that call found
BeforeResult(ops, args, keys) == [Before(ops, args, keys) EXCEPT !.seen = None]

----------------------------------------------------------------------------
(* FileService                                                             *)

\* no request in flight: n requests were served, and faulted tells whether a write
\* or a commit of one of them raised
Idle(n, faulted) == [pc |-> "idle", n |-> n, faulted |-> faulted]

\* FileService.__init__
Init ==
    /\ dirs = {<<>>}
    /\ files = <<>>
    /\ materials = <<>>
    /\ now = 0
    /\ req = Idle(0, FALSE)
    /\ last = NoCall
    /\ calls = [i \in Callers |-> NotCalling]

\* what a call found before it acted
Found == [files |-> files, dirs |-> dirs, req |-> req]

_get_project_dir(d, project_id) == Mkdir(d, <<project_id>>)
_get_template_dir(d, project_id) ==
    Mkdir(_get_project_dir(d, project_id), <<project_id, TEMPLATE>>)
_get_pages_dir(d, project_id) ==
    Mkdir(_get_project_dir(d, project_id), <<project_id, PAGES>>)

\* ext of save_template_image and save_user_template
TemplateExt(filename) ==
    LET original_filename == secure_filename(filename)
    IN  IF Contains(original_filename, ".")
        THEN Lower(RSplitTail(original_filename, "."))
        ELSE PNG

\* a bug: the template is always written under the default extension
TemplateFileName_AlwaysPng(ext) == TEMPLATE \o <<".">> \o PNG

TemplateFileName(ext) == TEMPLATE \o <<".">> \o ext

save_template_image(file, project_id) ==
    LET template_dir == <<project_id, TEMPLATE>>
        filename == TemplateFileName(TemplateExt(file.filename))
        filepath == Append(template_dir, filename)
    IN  /\ dirs' = _get_template_dir(dirs, project_id)
        /\ files' = WriteFile(files, filepath, file.content)
        /\ last' = Call("save_template_image",
                        [file |-> file, project_id |-> project_id],
                        StrPath(filepath),
                        {f[Len(f)] : f \in FilesIn(files, template_dir)},
                        Before({"save_template_image"},
                               [project_id |-> project_id], {"project_id"}))
        /\ UNCHANGED <<calls, materials, now, req>>

\* what the loop of get_template_path can return: iterdir() yields the entries
\* in an order the filesystem chooses, and the first match is returned
TemplateCandidates(fs, project_id) ==
    {f \in FilesIn(fs, <<project_id, TEMPLATE>>) : Stem(f[Len(f)]) = TEMPLATE}

\* a bug: the relative path is returned as it is
get_absolute_path_NoRoot(relative_path) == StrPath(SplitPath(relative_path))

\* get_absolute_path: str(upload_folder / relative_path)
get_absolute_path(relative_path) ==
    UPLOAD_FOLDER \o <<"/">> \o StrPath(SplitPath(relative_path))

get_template_path(project_id) ==
    /\ dirs' = _get_template_dir(dirs, project_id)
    /\ \E ret \in IF TemplateCandidates(files, project_id) = {}
                  THEN {None}
                  ELSE {get_absolute_path(StrPath(f)) :
                            f \in TemplateCandidates(files, project_id)} :
           last' = Call("get_template_path", [project_id |-> project_id], ret, Found,
                        Before({"save_template_image"},
                               [project_id |-> project_id], {"project_id"}))
    /\ UNCHANGED <<calls, files, materials, now, req>>

\* a bug: the version number is left out of the name
GeneratedImageName_NoVersion(page_id, ext, version_number, timestamp) ==
    page_id \o <<"_","v">> \o <<".">> \o ext

\* filename of save_generated_image
GeneratedImageName(page_id, ext, version_number, timestamp) ==
    IF version_number.given
    THEN page_id \o <<"_","v">> \o IntStr(version_number.n) \o <<".">> \o ext
    ELSE page_id \o <<"_">> \o IntStr(timestamp) \o <<".">> \o ext

save_generated_image(image, project_id, page_id, image_format, version_number) ==
    LET pages_dir == <<project_id, PAGES>>
        ext == Lower(image_format)
        timestamp == now
        filename == GeneratedImageName(page_id, ext, version_number, timestamp)
        filepath == Append(pages_dir, filename)
    IN  /\ dirs' = _get_pages_dir(dirs, project_id)
        /\ files' = WriteFile(files, filepath, image)
        /\ last' = Call("save_generated_image",
                        [image |-> image, project_id |-> project_id,
                         page_id |-> page_id, image_format |-> image_format,
                         version_number |-> version_number],
                        StrPath(filepath),
                        IF filepath \in DOMAIN files THEN <<files[filepath]>> ELSE <<>>,
                        NoPrev)
        /\ UNCHANGED <<calls, materials, now, req>>

delete_page_image_version(image_path) ==
    LET filepath == SplitPath(image_path)
    IN  /\ IF filepath \in dirs \cup DOMAIN files /\ filepath \in DOMAIN files
           THEN /\ files' = Unlink(files, {filepath})
                /\ last' = Call("delete_page_image_version",
                                [image_path |-> image_path], TRUE, None,
                                Before({"delete_page_image_version"},
                                       [image_path |-> image_path], {"image_path"}))
           ELSE /\ files' = files
                /\ last' = Call("delete_page_image_version",
                                [image_path |-> image_path], FALSE, None,
                                Before({"delete_page_image_version"},
                                       [image_path |-> image_path], {"image_path"}))
        /\ UNCHANGED <<calls, dirs, materials, now, req>>

delete_project_files(project_id) ==
    LET project_dir == <<project_id>>
    IN  /\ dirs' = RmtreeDirs(_get_project_dir(dirs, project_id), project_dir)
        /\ files' = RmtreeFiles(files, project_dir)
        /\ last' = Call("delete_project_files", [project_id |-> project_id], TRUE,
                        [existed |-> project_dir \in dirs, before |-> files, req |-> req,
                         files |-> files, dirs |-> dirs],
                        BeforeResult({"delete_project_files"},
                                     [project_id |-> project_id], {"project_id"}))
        /\ UNCHANGED <<calls, materials, now, req>>

_get_user_templates_dir(d) == Mkdir(d, <<USER_TEMPLATES>>)

save_user_template(file, template_id) ==
    LET template_dir == <<USER_TEMPLATES, template_id>>
        filename == TemplateFileName(TemplateExt(file.filename))
        filepath == Append(template_dir, filename)
    IN  /\ dirs' = Mkdir(_get_user_templates_dir(dirs), template_dir)
        /\ files' = WriteFile(files, filepath, file.content)
        /\ last' = Call("save_user_template",
                        [file |-> file, template_id |-> template_id],
                        StrPath(filepath), None, NoPrev)
        /\ UNCHANGED <<calls, materials, now, req>>

\* a bug: every entry that starts with the page id is matched
GlobPage_Prefix(fs, pages_dir, page_id) ==
    {f \in FilesIn(fs, pages_dir) :
        /\ Len(f[Len(f)]) > Len(page_id)
        /\ SubSeq(f[Len(f)], 1, Len(page_id)) = page_id}

\* Path.glob(page_id + ".*") in the pages directory: the entries whose name is
\* page_id, a dot, and anything (ids have no wildcard characters)
GlobPage(fs, pages_dir, page_id) ==
    {f \in FilesIn(fs, pages_dir) :
        /\ Len(f[Len(f)]) > Len(page_id)
        /\ SubSeq(f[Len(f)], 1, Len(page_id) + 1) = page_id \o <<".">>}

\* a bug: an empty template directory is reported as a failure
delete_template_Strict(project_id) ==
    LET template_dir == <<project_id, TEMPLATE>>
    IN  /\ dirs' = _get_template_dir(dirs, project_id)
        /\ files' = Unlink(files, FilesIn(files, template_dir))
        /\ last' = Call("delete_template", [project_id |-> project_id],
                        FilesIn(files, template_dir) # {}, Found,
                        BeforeResult({"delete_template"}, [project_id |-> project_id],
                                     {"project_id"}))
        /\ UNCHANGED <<calls, materials, now, req>>

delete_template(project_id) ==
    LET template_dir == <<project_id, TEMPLATE>>
    IN  /\ dirs' = _get_template_dir(dirs, project_id)
        /\ files' = Unlink(files, FilesIn(files, template_dir))
        /\ last' = Call("delete_template", [project_id |-> project_id], TRUE, Found,
                        BeforeResult({"delete_template"}, [project_id |-> project_id],
                               {"project_id"}))
        /\ UNCHANGED <<calls, materials, now, req>>

delete_page_image(project_id, page_id) ==
    LET pages_dir == <<project_id, PAGES>>
    IN  /\ dirs' = _get_pages_dir(dirs, project_id)
        /\ files' = Unlink(files, GlobPage(files, pages_dir, page_id))
        /\ last' = Call("delete_page_image",
                        [project_id |-> project_id, page_id |-> page_id], TRUE, Found,
                        BeforeResult({"delete_page_image", "save_generated_image"},
                               [project_id |-> project_id, page_id |-> page_id],
                               {"project_id", "page_id"}))
        /\ UNCHANGED <<calls, materials, now, req>>

delete_user_template(template_id) ==
    LET template_dir == <<USER_TEMPLATES, template_id>>
    IN  /\ dirs' = RmtreeDirs(_get_user_templates_dir(dirs), template_dir)
        /\ files' = RmtreeFiles(files, template_dir)
        /\ last' = Call("delete_user_template", [template_id |-> template_id], TRUE,
                        Found,
                        BeforeResult({"delete_user_template"}, [template_id |-> template_id],
                               {"template_id"}))
        /\ UNCHANGED <<calls, materials, now, req>>

\* file_exists
file_exists(relative_path) == SplitPath(relative_path) \in DOMAIN files

----------------------------------------------------------------------------
(* Material handlers                                                       *)

\* FileService._get_materials_dir (projectDir/materials, created on demand)
_get_materials_dir(d, project_id) ==
    Mkdir(_get_project_dir(d, project_id), <<project_id, MATERIALS>>)

\* a bug: the category is left out of the url
get_file_url_NoCategory(project_id, file_type, filename) ==
    FILES_PREFIX \o <<"/">> \o project_id \o <<"/">> \o filename

\* get_file_url
get_file_url(project_id, file_type, filename) ==
    FILES_PREFIX \o <<"/">> \o project_id \o <<"/">> \o file_type \o <<"/">> \o filename

allowed_extensions ==
    { <<".","p","n","g">>, <<".","j","p","g">>, <<".","j","p","e","g">>,
      <<".","g","i","f">>, <<".","w","e","b","p">>, <<".","b","m","p">>,
      <<".","s","v","g">> }

\* bool(s) of an Optional[str]
Truthy(s) == s # None /\ s # <<>>

\* target_project_id of upload_material, and whether the project is looked up
UploadMaterialTarget(project_id, query) ==
    LET requested == IF query.given THEN query.value ELSE project_id
    IN  IF requested = NONE_WORD
        THEN [target_project_id |-> None, lookup |-> FALSE]
        ELSE [target_project_id |-> requested,
              lookup |-> requested # <<>> /\ requested # ALL_WORD]

\* target_project_id of upload_material_global, and whether the project is looked up
UploadGlobalTarget(query) ==
    LET requested == IF query.given THEN query.value ELSE None
    IN  IF requested = NONE_WORD \/ ~Truthy(requested)
        THEN [target_project_id |-> None, lookup |-> FALSE]
        ELSE [target_project_id |-> requested, lookup |-> TRUE]

\* a bug: the timestamp is left out of the name
UniqueFilename_NoTimestamp(filename, timestamp) ==
    Stem(filename) \o <<"_">> \o Lower(Suffix(filename))

\* unique_filename of the upload handlers
UniqueFilename(filename, timestamp) ==
    Stem(filename) \o <<"_">> \o IntStr(timestamp) \o Lower(Suffix(filename))

\* image_url of the upload handlers
MaterialUrl(target_project_id, unique_filename) ==
    IF Truthy(target_project_id)
    THEN get_file_url(target_project_id, MATERIALS, unique_filename)
    ELSE FILES_PREFIX \o <<"/">> \o MATERIALS \o <<"/">> \o unique_filename

\* Material(project_id=..., filename=..., relative_path=..., url=...); id is a
\* fresh uuid
Material(project_id, filename, relative_path, url) ==
    [id |-> Len(materials) + 1, project_id |-> project_id, filename |-> filename,
     relative_path |-> relative_path, url |-> url]

not_found == [status |-> 404, error |-> "NOT_FOUND", data |-> None]
bad_request == [status |-> 400, error |-> "BAD_REQUEST", data |-> None]
error_response(code, status) == [status |-> status, error |-> code, data |-> None]
success_response(data, status) == [status |-> status, error |-> "", data |-> data]

\* a bug: the global materials directory is made before the request is checked
Reject_Mkdir(handler, args, response) ==
    /\ req' = Idle(req.n + 1, req.faulted)
    /\ last' = Call(handler, args, response, None, NoPrev)
    /\ dirs' = Mkdir(dirs, <<MATERIALS>>)
    /\ UNCHANGED <<calls, files, materials, now>>

\* the handler rejects the request before it touches the store
Reject(handler, args, response) ==
    /\ req' = Idle(req.n + 1, req.faulted)
    /\ last' = Call(handler, args, response, None, NoPrev)
    /\ UNCHANGED <<calls, dirs, files, materials, now>>

\* upload_material and upload_material_global up to the file write: the target
\* project, the checks of the upload, the materials directory, the file name
upload_start(handler, args, t) ==
    /\ req.pc = "idle"
    /\ req.n < MaxRequests
    /\ IF t.lookup /\ t.target_project_id \notin Projects
       THEN Reject(handler, args, not_found)
       ELSE IF ~args.file.present \/ args.file.filename = <<>>
       THEN Reject(handler, args, bad_request)
       ELSE LET filename == secure_filename(args.file.filename)
                file_ext == Lower(Suffix(filename))
                materials_dir == IF Truthy(t.target_project_id)
                                 THEN <<t.target_project_id, MATERIALS>>
                                 ELSE <<MATERIALS>>
                timestamp == now
                unique_filename == UniqueFilename(filename, timestamp)
            IN  IF file_ext \notin allowed_extensions
                THEN Reject(handler, args, bad_request)
                ELSE /\ dirs' = IF Truthy(t.target_project_id)
                                THEN _get_materials_dir(dirs, t.target_project_id)
                                ELSE Mkdir(dirs, materials_dir)
                     /\ req' = [pc |-> "save", n |-> req.n + 1, faulted |-> req.faulted,
                                handler |-> handler, args |-> args,
                                target_project_id |-> t.target_project_id,
                                timestamp |-> timestamp,
                                unique_filename |-> unique_filename,
                                filepath |-> Append(materials_dir, unique_filename),
                                content |-> args.file.content]
                     /\ UNCHANGED <<calls, files, materials, now, last>>

\* the last call, when it was an upload that was stored
StoredBefore ==
    IF last.op \in {"upload_material", "upload_material_global"} /\ last.ret.status = 201
    THEN [op |-> last.op, args |-> last.args, ret |-> last.ret, seen |-> last.seen]
    ELSE NoPrev

\* a bug: an exception of file.save is swallowed and the handler goes on
upload_save_Swallow(outcome) ==
    /\ req.pc = "save"
    /\ files' = IF outcome = "ok" THEN WriteFile(files, req.filepath, req.content) ELSE files
    /\ req' = [req EXCEPT !.pc = "commit"]
    /\ UNCHANGED <<calls, dirs, materials, now, last>>

\* file.save(str(filepath)); a failure goes to the except clause: rollback and a
\* SERVER_ERROR response
upload_save(outcome) ==
    /\ req.pc = "save"
    /\ IF outcome = "ok" /\ SubSeq(req.filepath, 1, Len(req.filepath) - 1) \in dirs
       THEN /\ files' = WriteFile(files, req.filepath, req.content)
            /\ req' = [req EXCEPT !.pc = "commit"]
            /\ UNCHANGED <<calls, dirs, materials, now, last>>
       ELSE /\ files' = IF outcome = "write_raises"
                           /\ SubSeq(req.filepath, 1, Len(req.filepath) - 1) \in dirs
                        THEN WriteFile(files, req.filepath, Partial)
                        ELSE files
            /\ req' = Idle(req.n, TRUE)
            /\ last' = Call(req.handler, req.args, error_response("SERVER_ERROR", 500),
                            [timestamp |-> req.timestamp, stage |-> "save"], NoPrev)
            /\ UNCHANGED <<calls, dirs, materials, now>>

\* the Material row, db.session.add, db.session.commit and the response
upload_commit(outcome) ==
    /\ req.pc = "commit"
    /\ req.handler # "generate_material_image"
    /\ LET relative_path == StrPath(req.filepath)
           image_url == MaterialUrl(req.target_project_id, req.unique_filename)
           material == Material(req.target_project_id, req.unique_filename,
                                relative_path, image_url)
       IN  IF outcome = "ok"
           THEN /\ materials' = Append(materials, material)
                /\ last' = Call(req.handler, req.args, success_response(material, 201),
                                [timestamp |-> req.timestamp, stage |-> "commit"],
                                StoredBefore)
           ELSE /\ materials' = materials
                /\ last' = Call(req.handler, req.args, error_response("SERVER_ERROR", 500),
                                [timestamp |-> req.timestamp, stage |-> "commit"], NoPrev)
    /\ req' = Idle(req.n, req.faulted \/ outcome # "ok")
    /\ UNCHANGED <<calls, dirs, files, now>>

\* the directory tempfile.mkdtemp makes: a name not in use
TempDir == <<<<"t","m","p","k","3","x","q","0">>>>

\* FileService.save_material_image: the file name it generates
GeneratedMaterialName(timestamp) ==
    <<"m","a","t","e","r","i","a","l","_">> \o IntStr(timestamp) \o <<".">> \o PNG

\* generate_material_image up to mkdtemp: the project, the prompt
generate_start(args) ==
    /\ req.pc = "idle"
    /\ req.n < MaxRequests
    /\ IF args.project_id \notin Projects
       THEN Reject("generate_material_image", args, not_found)
       ELSE IF Strip(args.prompt, {" "}) = <<>>
       THEN Reject("generate_material_image", args, bad_request)
       ELSE /\ dirs' = Mkdir(dirs, TempDir)
            /\ req' = [pc |-> "refs", n |-> req.n + 1, faulted |-> req.faulted,
                       handler |-> "generate_material_image", args |-> args,
                       rows |-> Len(materials), image |-> "None", raised |-> FALSE]
            /\ UNCHANGED <<calls, files, materials, now, last>>

\* a bug: the temporary directory is removed at the end of the try body, which
\* only a successful request reaches
generate_end_OnSuccess(response, r, d, fs, rows) ==
    /\ dirs' = IF response.status = 200 THEN RmtreeDirs(d, TempDir) ELSE d
    /\ files' = IF response.status = 200 THEN RmtreeFiles(fs, TempDir) ELSE fs
    /\ materials' = rows
    /\ req' = Idle(r.n, r.faulted \/ r.raised)
    /\ last' = Call("generate_material_image", r.args, response,
                    [rows |-> r.rows, image |-> r.image, raised |-> r.raised], NoPrev)
    /\ UNCHANGED <<calls, now>>

\* the finally clause (the temporary directory is removed) and the response,
\* from directories d, files fs and table rows
generate_end(response, r, d, fs, rows) ==
    /\ dirs' = RmtreeDirs(d, TempDir)
    /\ files' = RmtreeFiles(fs, TempDir)
    /\ materials' = rows
    /\ req' = Idle(r.n, r.faulted \/ r.raised)
    /\ last' = Call("generate_material_image", r.args, response,
                    [rows |-> r.rows, image |-> r.image, raised |-> r.raised], NoPrev)
    /\ UNCHANGED <<calls, now>>

\* ref_file.save(...), extra.save(...): the given reference images written into
\* the temporary directory
SaveRefs(fs, refs) ==
    [q \in (DOMAIN fs) \cup {TempDir \o <<secure_filename(f.filename)>> : f \in refs}
       |-> IF \E f \in refs : q = TempDir \o <<secure_filename(f.filename)>>
           THEN (CHOOSE f \in refs : q = TempDir \o <<secure_filename(f.filename)>>).content
           ELSE fs[q]]

\* the reference images are saved into the temporary directory; a save that
\* raises does so after some of them, not all, were written
generate_refs(outcome) ==
    /\ req.pc = "refs"
    /\ IF outcome = "ok" \/ req.args.refs = {}
       THEN /\ outcome = "ok"
            /\ files' = SaveRefs(files, req.args.refs)
            /\ req' = [req EXCEPT !.pc = "ai"]
            /\ UNCHANGED <<calls, dirs, materials, now, last>>
       ELSE \E written \in (SUBSET req.args.refs) \ {req.args.refs} :
                generate_end(error_response("AI_SERVICE_ERROR", 503),
                             [req EXCEPT !.raised = TRUE], dirs,
                             SaveRefs(files, written), materials)

\* ai_service.generate_image(...), and the check of its result
generate_ai(outcome) ==
    /\ req.pc = "ai"
    /\ IF outcome \in Payloads
       THEN /\ req' = [req EXCEPT !.pc = "store", !.image = outcome]
            /\ UNCHANGED <<calls, dirs, files, materials, now, last>>
       ELSE generate_end(error_response("AI_SERVICE_ERROR", 503),
                         [req EXCEPT !.raised = (outcome = "raises")], dirs, files,
                         materials)

\* file_service.save_material_image(image, project_id)
generate_store(outcome) ==
    /\ req.pc = "store"
    /\ LET materials_dir == <<req.args.project_id, MATERIALS>>
           filepath == Append(materials_dir, GeneratedMaterialName(now))
       IN  IF outcome = "ok"
           THEN /\ dirs' = _get_materials_dir(dirs, req.args.project_id)
                /\ files' = WriteFile(files, filepath, req.image)
                /\ req' = [req EXCEPT !.pc = "commit"] @@ [relative_path |-> StrPath(filepath)]
                /\ UNCHANGED <<calls, materials, now, last>>
           ELSE generate_end(error_response("AI_SERVICE_ERROR", 503),
                             [req EXCEPT !.raised = TRUE],
                             _get_materials_dir(dirs, req.args.project_id),
                             IF outcome = "write_raises"
                             THEN WriteFile(files, filepath, Partial)
                             ELSE files,
                             materials)

\* the Material row, db.session.commit() and the response
generate_commit(outcome) ==
    /\ req.pc = "commit"
    /\ req.handler = "generate_material_image"
    /\ LET relative_path == req.relative_path
           filename == PathName(relative_path)
           image_url == get_file_url(req.args.project_id, MATERIALS, filename)
           material == Material(req.args.project_id, filename, relative_path, image_url)
       IN  IF outcome = "ok"
           THEN generate_end(success_response([image_url |-> image_url,
                                               relative_path |-> relative_path,
                                               material_id |-> material.id], 200),
                             req, dirs, files, Append(materials, material))
           ELSE generate_end(error_response("AI_SERVICE_ERROR", 503),
                             [req EXCEPT !.raised = TRUE], dirs, files, materials)

----------------------------------------------------------------------------
(* Actions                                                                 *)

SaveTemplateImage ==
    \E file \in TemplateUploads, project_id \in Projects :
        save_template_image(file, project_id)

GetTemplatePath == \E project_id \in Projects : get_template_path(project_id)

\* the images a call is made with: both for the call saved again and for the call
\* without version, one for the calls that only put other files next to them
PageImages(c) ==
    IF c.project_id = <<"p","1">> /\ c.page_id = <<"s","1">> /\ c.version_number.n # 12
    THEN Payloads
    ELSE {"A"}

SaveGeneratedImage ==
    \E c \in PageCalls : \E image \in PageImages(c) :
        save_generated_image(image, c.project_id, c.page_id, c.image_format,
                             c.version_number)

\* the relative paths delete_page_image_version is called with: those of the files
\* save_generated_image can have written (present or not), and a directory
PageImagePaths ==
    { StrPath(<<c.project_id, PAGES,
                GeneratedImageName(c.page_id, Lower(c.image_format), c.version_number, t)>>) :
          c \in PageCalls, t \in 0..MaxClock }
    \cup { StrPath(<<c.project_id, PAGES>>) : c \in PageCalls }

DeletePageImageVersion ==
    \E image_path \in PageImagePaths : delete_page_image_version(image_path)

UploadMaterial ==
    \E r \in UploadMaterialRequests :
        upload_start("upload_material", r, UploadMaterialTarget(r.project_id, r.query))

UploadMaterialGlobal ==
    \E r \in UploadGlobalRequests :
        upload_start("upload_material_global", r, UploadGlobalTarget(r.query))

UploadSave == \E outcome \in SaveOutcomes : upload_save(outcome)

UploadCommit == \E outcome \in CommitOutcomes : upload_commit(outcome)

GenerateMaterialImage == \E r \in GenerateRequests : generate_start(r)

GenerateRefs == \E outcome \in SaveOutcomes : generate_refs(outcome)

GenerateAI == \E outcome \in AIOutcomes : generate_ai(outcome)

GenerateStore == \E outcome \in SaveOutcomes : generate_store(outcome)

GenerateCommit == \E outcome \in CommitOutcomes : generate_commit(outcome)

DeleteProjectFiles ==
    \E project_id \in Projects : delete_project_files(project_id)

\* one file of each kind, for the specification of whole projects: a template per
\* project, a page image, a material per project and a global one, a user template
StoreTemplate ==
    \E project_id \in Projects :
        save_template_image(Upload(<<"a",".","p","n","g">>, "A"), project_id)

StorePageImage ==
    \E project_id \in {<<"p","1">>} :
        save_generated_image("A", project_id, <<"s","1">>, <<"P","N","G">>, Version(1))

StoreMaterial ==
    \E r \in {[project_id |-> pid, query |-> q, file |-> Upload(<<"a",".","p","n","g">>, "A")] :
                  pid \in Projects, q \in {NoQuery, Query(NONE_WORD)}}
              \ {[project_id |-> <<"p","2">>, query |-> Query(NONE_WORD),
                  file |-> Upload(<<"a",".","p","n","g">>, "A")]} :
        upload_start("upload_material", r, UploadMaterialTarget(r.project_id, r.query))

StoreUserTemplate ==
    save_user_template(Upload(<<"a",".","p","n","g">>, "A"), <<"t","1">>)

\* a millisecond passes
Tick == now < MaxClock /\ now' = now + 1 /\ UNCHANGED <<calls, dirs, files, materials, req, last>>

NextPages == SaveGeneratedImage \/ DeletePageImageVersion \/ Tick
SpecPages == Init /\ [][NextPages]_vars

NextMaterial ==
    \/ UploadMaterial \/ UploadMaterialGlobal \/ UploadSave \/ UploadCommit
    \/ GenerateMaterialImage \/ GenerateRefs \/ GenerateAI \/ GenerateStore
    \/ GenerateCommit
    \/ Tick
SpecMaterial == Init /\ [][NextMaterial]_vars

NextUpload == UploadMaterial \/ UploadMaterialGlobal \/ UploadSave \/ UploadCommit \/ Tick
SpecUpload == Init /\ [][NextUpload]_vars

NextProject ==
    \/ StoreTemplate \/ StorePageImage \/ StoreUserTemplate
    \/ StoreMaterial \/ UploadSave \/ UploadCommit
    \/ DeleteProjectFiles
SpecProject == Init /\ [][NextProject]_vars

NextTemplate == SaveTemplateImage \/ GetTemplatePath
SpecTemplate == Init /\ [][NextTemplate]_vars

\* the arguments get_file_url is called with: ids, categories and file names of the
\* layout, and strings that are none of them (empty, with a slash, with a space)
UrlProjectIds == {<<"p","1">>, <<>>, <<"a","/","b">>}
UrlFileTypes == {TEMPLATE, PAGES, MATERIALS, <<"x"," ","y">>}
UrlFilenames ==
    {<<"s","1","_","v","3",".","p","n","g">>, <<>>, <<".",".","/","e">>, <<"A",".","P","N","G">>}

\* a call of get_file_url; seen is the store the call found
GetFileUrl ==
    \E project_id \in UrlProjectIds, file_type \in UrlFileTypes, filename \in UrlFilenames :
        /\ last' = Call("get_file_url",
                        [project_id |-> project_id, file_type |-> file_type,
                         filename |-> filename],
                        get_file_url(project_id, file_type, filename),
                        [dirs |-> dirs, files |-> files], NoPrev)
        /\ UNCHANGED <<calls, dirs, files, materials, now, req>>

NextUrl == GetFileUrl \/ StoreTemplate \/ StoreUserTemplate
SpecUrl == Init /\ [][NextUrl]_vars

----------------------------------------------------------------------------
(* File serving routes                                                     *)

\* s.split("/"): the segments of a url path, empty ones included
RECURSIVE Segments(_)
Segments(s) ==
    IF ~Contains(s, "/") THEN <<s>>
    ELSE LET i == CHOOSE k \in 1..Len(s) : s[k] = "/" /\ \A j \in 1..(k-1) : s[j] # "/"
         IN  <<SubSeq(s, 1, i - 1)>> \o Segments(SubSeq(s, i + 1, Len(s)))

\* os.path.exists
PathExists(path) == path \in dirs \/ path \in DOMAIN files

\* a bug: the file is looked for in the directory above
ServeFrom_Parent(file_dir, filename) ==
    IF ~PathExists(file_dir) THEN not_found
    ELSE IF ~PathExists(Append(file_dir, filename)) THEN not_found
    ELSE LET up == Append(SubSeq(file_dir, 1, Len(file_dir) - 1), filename)
         IN  IF up \in DOMAIN files
             THEN success_response([path |-> up, content |-> files[up]], 200)
             ELSE error_response("SERVER_ERROR", 500)

\* the body the three routes share: the directory and the file are checked, then
\* send_from_directory(file_dir, filename); its NotFound (not a regular file) is an
\* Exception and goes to the except clause
ServeFrom(file_dir, filename) ==
    IF ~PathExists(file_dir) THEN not_found
    ELSE IF ~PathExists(Append(file_dir, filename)) THEN not_found
    ELSE IF Append(file_dir, filename) \in DOMAIN files
    THEN success_response([path |-> Append(file_dir, filename),
                           content |-> files[Append(file_dir, filename)]], 200)
    ELSE error_response("SERVER_ERROR", 500)

served_file_types == {TEMPLATE, PAGES, MATERIALS, <<"e","x","p","o","r","t","s">>}

serve_file(project_id, file_type, filename) ==
    IF file_type \notin served_file_types THEN not_found
    ELSE ServeFrom(<<project_id, file_type>>, filename)

serve_user_template(template_id, filename) ==
    ServeFrom(<<USER_TEMPLATES, template_id>>, filename)

serve_global_material(filename) == ServeFrom(<<MATERIALS>>, filename)

\* the routes of file_bp (url_prefix '/files'): a variable matches one non-empty
\* segment, and of two rules that match the one with more fixed segments is taken
Route(url) ==
    LET s == Segments(url)
    IN  IF Len(s) < 3 \/ s[1] # <<>> \/ s[2] # Tail(FILES_PREFIX)
           \/ \E k \in 3..Len(s) : s[k] = <<>>
        THEN not_found
        ELSE IF Len(s) = 5 /\ s[3] = USER_TEMPLATES THEN serve_user_template(s[4], s[5])
        ELSE IF Len(s) = 4 /\ s[3] = MATERIALS THEN serve_global_material(s[4])
        ELSE IF Len(s) = 5 THEN serve_file(s[3], s[4], s[5])
        ELSE not_found

\* GET of a url: of a material row, or of a category that is not served
ServedUrls ==
    {materials[i].url : i \in DOMAIN materials}
    \cup { <<"/","f","i","l","e","s","/","p","1","/","x","/","a",".","p","n","g">> }

ServeUrl ==
    \E url \in ServedUrls :
        /\ last' = Call("serve", [url |-> url], Route(url), None, NoPrev)
        /\ UNCHANGED <<calls, dirs, files, materials, now, req>>

NextServe ==
    \/ UploadMaterial \/ UploadMaterialGlobal \/ UploadSave \/ UploadCommit
    \/ GenerateMaterialImage \/ GenerateRefs \/ GenerateAI \/ GenerateStore
    \/ GenerateCommit
    \/ DeleteProjectFiles
    \/ ServeUrl
SpecServe == Init /\ [][NextServe]_vars

----------------------------------------------------------------------------
(* Saves of every kind                                                     *)

\* uploads whose name has an upper-case extension, no extension, or characters that
\* secure_filename drops
LayoutUploads ==
    {u \in TemplateUploads : u.filename \notin {<<"a",".","p","n","g">>, <<"c",".","g","i","f">>}}

\* the saves of the service, each with inputs of its own kind: a project's template
\* and a user template, a page image with and without a version
LayoutTemplate ==
    \E file \in LayoutUploads : save_template_image(file, <<"p","1">>)

LayoutUserTemplate ==
    \E file \in LayoutUploads : save_user_template(file, <<"t","1">>)

LayoutPageImage ==
    \E c \in {d \in PageCalls : d.page_id = <<"s","1">> /\ d.version_number.n # 12} :
        save_generated_image("A", c.project_id, c.page_id, c.image_format,
                             c.version_number)

NextLayout == LayoutTemplate \/ LayoutUserTemplate \/ LayoutPageImage \/ Tick
SpecLayout == Init /\ [][NextLayout]_vars

----------------------------------------------------------------------------
(* Deletes next to siblings                                                *)

UserTemplateIds == {<<"t","1">>, <<"t","2">>}

\* the files deletes are checked against: two templates of different extension for
\* a project and one for another, the images of two pages of a project, a
\* material of the project, two user templates
FrameTemplate ==
    \E c \in { [pid |-> <<"p","1">>, file |-> Upload(<<"a",".","p","n","g">>, "A")],
               [pid |-> <<"p","1">>, file |-> Upload(<<"c",".","g","i","f">>, "B")],
               [pid |-> <<"p","2">>, file |-> Upload(<<"a",".","p","n","g">>, "A")] } :
        save_template_image(c.file, c.pid)

FramePageImage ==
    \E page_id \in {<<"s","1">>, <<"s","2">>} :
        save_generated_image("A", <<"p","1">>, page_id, <<"P","N","G">>, Version(1))

FrameUserTemplate ==
    \E template_id \in UserTemplateIds :
        save_user_template(Upload(<<"a",".","p","n","g">>, "A"), template_id)

\* (one upload request is served)
FrameMaterial ==
    \E r \in {[project_id |-> <<"p","1">>, query |-> NoQuery,
               file |-> Upload(<<"a",".","p","n","g">>, "A")]} :
        /\ req.n = 0
        /\ upload_start("upload_material", r, UploadMaterialTarget(r.project_id, r.query))

DeleteTemplate == \E project_id \in Projects : delete_template(project_id)

DeletePageImage ==
    \E page_id \in {<<"s","1">>, <<"s","2">>} : delete_page_image(<<"p","1">>, page_id)

DeleteUserTemplate == \E template_id \in UserTemplateIds : delete_user_template(template_id)

NextFrame ==
    \/ FrameTemplate \/ FramePageImage \/ FrameUserTemplate
    \/ FrameMaterial \/ UploadSave \/ UploadCommit
    \/ DeleteTemplate \/ DeletePageImage \/ DeleteUserTemplate
SpecFrame == Init /\ [][NextFrame]_vars

\* page images are saved, with and without a version, and deleted by page
NextPageDelete == LayoutPageImage \/ FramePageImage \/ DeletePageImage \/ Tick
SpecPageDelete == Init /\ [][NextPageDelete]_vars

\* reads and deletes on a store that saves fill
NextDirs ==
    \/ StoreTemplate \/ StoreUserTemplate \/ StorePageImage
    \/ GetTemplatePath
    \/ DeleteTemplate \/ DeletePageImage \/ DeleteProjectFiles \/ DeleteUserTemplate
SpecDirs == Init /\ [][NextDirs]_vars

----------------------------------------------------------------------------
(* Saves of concurrent callers, system call by system call                 *)

\* an upload whose content is written in chunks (FileStorage.save copies the
\* stream chunk by chunk; Image.save writes its encoder's output likewise)
Chunked(filename, content) == [present |-> TRUE, filename |-> filename, content |-> content]
LongA == <<"a1", "a2">>
ShortB == <<"b1">>

\* what a save does: the directories it makes, in order, and the file it writes
SavePlan(op, args) ==
    IF op = "save_template_image"
    THEN [mkdirs |-> << <<args.project_id>>, <<args.project_id, TEMPLATE>> >>,
          filepath |-> <<args.project_id, TEMPLATE,
                         TemplateFileName(TemplateExt(args.file.filename))>>,
          content |-> args.file.content]
    ELSE IF op = "save_user_template"
    THEN [mkdirs |-> << <<USER_TEMPLATES>>, <<USER_TEMPLATES, args.template_id>> >>,
          filepath |-> <<USER_TEMPLATES, args.template_id,
                         TemplateFileName(TemplateExt(args.file.filename))>>,
          content |-> args.file.content]
    ELSE [mkdirs |-> << <<args.project_id>>, <<args.project_id, PAGES>> >>,
          filepath |-> <<args.project_id, PAGES,
                         GeneratedImageName(args.page_id, Lower(args.image_format),
                                            args.version_number, now)>>,
          content |-> args.image]

\* the calls made concurrently: the same template from two uploads, a template of
\* another extension, the same user template from two uploads, a page image
ConcurrentCalls ==
    LET apng == <<"a",".","p","n","g">>
        p1 == <<"p","1">>
        t1 == <<"t","1">>
    IN  { [op |-> "save_template_image",
           args |-> [file |-> Chunked(apng, LongA), project_id |-> p1]],
          [op |-> "save_template_image",
           args |-> [file |-> Chunked(apng, ShortB), project_id |-> p1]],
          [op |-> "save_template_image",
           args |-> [file |-> Chunked(<<"c",".","g","i","f">>, ShortB), project_id |-> p1]],
          [op |-> "save_user_template",
           args |-> [file |-> Chunked(apng, LongA), template_id |-> t1]],
          [op |-> "save_user_template",
           args |-> [file |-> Chunked(apng, ShortB), template_id |-> t1]],
          [op |-> "save_generated_image",
           args |-> [image |-> ShortB, project_id |-> p1, page_id |-> <<"s","1">>,
                     image_format |-> <<"P","N","G">>, version_number |-> Version(1)]] }

\* caller i enters a save
CallStart(i) ==
    /\ calls[i].pc = "idle"
    /\ \E c \in ConcurrentCalls :
          calls' = [calls EXCEPT ![i] =
                       [pc |-> "mkdir", op |-> c.op, args |-> c.args,
                        todo |-> SavePlan(c.op, c.args).mkdirs,
                        filepath |-> SavePlan(c.op, c.args).filepath,
                        content |-> SavePlan(c.op, c.args).content, written |-> 0]]
    /\ UNCHANGED <<dirs, files, materials, now, req, last>>

\* after a directory: the next one, or what the call does next (a save opens its
\* file, delete_project_files tests project_dir.exists())
AfterMkdir(c, todo) ==
    [c EXCEPT !.todo = todo,
              !.pc = IF todo # <<>> THEN "mkdir"
                     ELSE IF c.op = "delete_project_files" THEN "exists" ELSE "open"]

\* a bug: mkdir without exist_ok
CallMkdir_NoExistOk(i) ==
    /\ calls[i].pc = "mkdir"
    /\ LET path == Head(calls[i].todo)
       IN  IF path \in dirs
           THEN /\ calls' = [calls EXCEPT ![i].pc = "failed"]
                /\ dirs' = dirs
           ELSE /\ dirs' = dirs \cup {path}
                /\ calls' = [calls EXCEPT ![i] = AfterMkdir(@, Tail(calls[i].todo))]
    /\ UNCHANGED <<files, materials, now, req, last>>

\* Path.mkdir(exist_ok=True, parents=True), one os.mkdir at a time: FileExistsError
\* is passed over when the path is a directory, FileNotFoundError makes the parent
\* first, and a path that is a file is an error
CallMkdir(i) ==
    /\ calls[i].pc = "mkdir"
    /\ LET path == Head(calls[i].todo)
           parent == SubSeq(path, 1, Len(path) - 1)
       IN  IF path \in dirs
           THEN /\ calls' = [calls EXCEPT ![i] = AfterMkdir(@, Tail(calls[i].todo))]
                /\ dirs' = dirs
           ELSE IF path \in DOMAIN files
           THEN /\ calls' = [calls EXCEPT ![i].pc = "failed"]
                /\ dirs' = dirs
           ELSE IF parent \notin dirs
           THEN /\ calls' = [calls EXCEPT ![i].todo = <<parent>> \o @]
                /\ dirs' = dirs
           ELSE /\ dirs' = dirs \cup {path}
                /\ calls' = [calls EXCEPT ![i] = AfterMkdir(@, Tail(calls[i].todo))]
    /\ UNCHANGED <<files, materials, now, req, last>>

\* open(filepath, "wb"): the file is created, or truncated
CallOpen(i) ==
    /\ calls[i].pc = "open"
    /\ IF SubSeq(calls[i].filepath, 1, Len(calls[i].filepath) - 1) \in dirs
       THEN /\ files' = WriteFile(files, calls[i].filepath, <<>>)
            /\ calls' = [calls EXCEPT ![i].pc = "write"]
       ELSE /\ files' = files
            /\ calls' = [calls EXCEPT ![i].pc = "failed"]
    /\ UNCHANGED <<dirs, materials, now, req, last>>

\* the file after write() of chunk at the k-th chunk position: what is there is
\* replaced, a gap left by another caller's truncation reads as zeros
PutChunk(content, k, chunk) ==
    [j \in 1..(IF k > Len(content) THEN k ELSE Len(content)) |->
        IF j = k THEN chunk ELSE IF j <= Len(content) THEN content[j] ELSE "zeros"]

\* write() of the next chunk at this caller's file position; after the last chunk
\* the file is closed and the call returns the relative path
CallWrite(i) ==
    /\ calls[i].pc = "write"
    /\ calls[i].written < Len(calls[i].content)
    /\ IF calls[i].filepath \in DOMAIN files
       THEN files' = WriteFile(files, calls[i].filepath,
                               PutChunk(files[calls[i].filepath], calls[i].written + 1,
                                        calls[i].content[calls[i].written + 1]))
       ELSE files' = files      \* unlinked while open: the write goes to no path
    /\ IF calls[i].written + 1 < Len(calls[i].content)
       THEN /\ calls' = [calls EXCEPT ![i].written = @ + 1]
            /\ last' = last
       ELSE /\ calls' = [calls EXCEPT ![i].written = @ + 1, ![i].pc = "done"]
            /\ last' = Call(calls[i].op, calls[i].args, StrPath(calls[i].filepath),
                            None, NoPrev)
    /\ UNCHANGED <<dirs, materials, now, req>>

NextConcurrent ==
    \E i \in Callers :
        \/ CallStart(i) \/ CallMkdir(i) \/ CallOpen(i) \/ CallWrite(i)
SpecConcurrent == Init /\ [][NextConcurrent]_vars

\* project ids the service is called with when nothing checks them: the name of
\* a project, and the names of the two global directories
StoreProjectIds == {<<"p","1">>, MATERIALS, USER_TEMPLATES}

NamespaceSaveTemplate ==
    \E project_id \in StoreProjectIds :
        save_template_image(Upload(<<"a",".","p","n","g">>, "B"), project_id)

NamespaceSavePage ==
    \E project_id \in {<<"p","1">>} :
        save_generated_image("B", project_id, <<"s","1">>, <<"P","N","G">>, Version(1))

NamespaceDeleteTemplate ==
    \E project_id \in {<<"p","1">>, USER_TEMPLATES} : delete_template(project_id)

NamespaceDeletePage ==
    \E project_id \in {<<"p","1">>} : delete_page_image(project_id, <<"s","1">>)

NamespaceDeleteProject ==
    \E project_id \in StoreProjectIds : delete_project_files(project_id)

\* (one upload request is served: a global material)
NamespaceGlobalMaterial ==
    \E r \in {[project_id |-> None, query |-> NoQuery,
               file |-> Upload(<<"a",".","p","n","g">>, "A")]} :
        /\ req.n = 0
        /\ upload_start("upload_material_global", r, UploadGlobalTarget(r.query))

NamespaceSaveUserTemplate ==
    save_user_template(Upload(<<"a",".","p","n","g">>, "A"), <<"t","1">>)

NamespaceDeleteUserTemplate == delete_user_template(<<"t","1">>)

\* the three namespaces used together
NextNamespace ==
    \/ NamespaceSaveTemplate \/ NamespaceSavePage
    \/ NamespaceDeleteTemplate \/ NamespaceDeletePage \/ NamespaceDeleteProject
    \/ NamespaceGlobalMaterial \/ UploadSave \/ UploadCommit
    \/ NamespaceSaveUserTemplate \/ NamespaceDeleteUserTemplate
SpecNamespace == Init /\ [][NextNamespace]_vars

\* the saves into project p1 that run beside delete_project_files('p1')
ProjectSaves ==
    LET p1 == <<"p","1">>
    IN  { [op |-> "save_template_image",
           args |-> [file |-> Chunked(<<"a",".","p","n","g">>, LongA), project_id |-> p1]],
          [op |-> "save_template_image",
           args |-> [file |-> Chunked(<<"c",".","g","i","f">>, ShortB), project_id |-> p1]],
          [op |-> "save_generated_image",
           args |-> [image |-> ShortB, project_id |-> p1, page_id |-> <<"s","1">>,
                     image_format |-> <<"P","N","G">>, version_number |-> Version(1)]] }

\* caller i enters a save into the project
ProjectSaveStart(i) ==
    /\ calls[i].pc = "idle"
    /\ \E c \in ProjectSaves :
          calls' = [calls EXCEPT ![i] =
                       [pc |-> "mkdir", op |-> c.op, args |-> c.args,
                        todo |-> SavePlan(c.op, c.args).mkdirs,
                        filepath |-> SavePlan(c.op, c.args).filepath,
                        content |-> SavePlan(c.op, c.args).content, written |-> 0]]
    /\ UNCHANGED <<dirs, files, materials, now, req, last>>

\* caller i enters delete_project_files(project_id): _get_project_dir comes first
DeleteStart(i) ==
    /\ calls[i].pc = "idle"
    /\ \E project_id \in {<<"p","1">>} :
          calls' = [calls EXCEPT ![i] =
                       [pc |-> "mkdir", op |-> "delete_project_files",
                        args |-> [project_id |-> project_id],
                        todo |-> << <<project_id>> >>, stack |-> <<>>]]
    /\ UNCHANGED <<dirs, files, materials, now, req, last>>

\* the call of caller i returns ret
CallReturns(i, ret) ==
    /\ calls' = [calls EXCEPT ![i].pc = "done"]
    /\ last' = Call(calls[i].op, calls[i].args, ret, None, NoPrev)

\* the call of caller i raises
CallRaises(i) ==
    /\ calls' = [calls EXCEPT ![i].pc = "failed"]
    /\ last' = last

\* rmtree's record of a directory it has entered
Frame(dir) == [dir |-> dir, listed |-> FALSE, entries |-> {}]

\* if project_dir.exists(): shutil.rmtree(project_dir)
DeleteExists(i) ==
    /\ calls[i].pc = "exists"
    /\ IF <<calls[i].args.project_id>> \in dirs
       THEN /\ calls' = [calls EXCEPT ![i].pc = "rmtree",
                                      ![i].stack = <<Frame(<<calls[i].args.project_id>>)>>]
            /\ last' = last
       ELSE CallReturns(i, TRUE)
    /\ UNCHANGED <<dirs, files, materials, now, req>>

\* what is directly in a directory, each entry with its kind as scandir reports it
Scandir(dir) ==
    {[path |-> q, is_dir |-> TRUE] : q \in {d \in dirs : Len(d) = Len(dir) + 1 /\ IsPrefix(dir, d)}}
    \cup {[path |-> f, is_dir |-> FALSE] : f \in FilesIn(files, dir)}

\* rmtree lists the directory it has entered
RmtreeList(i) ==
    /\ calls[i].pc = "rmtree"
    /\ \E top \in {calls[i].stack[Len(calls[i].stack)]} :
          /\ ~top.listed
          /\ IF top.dir \in dirs
             THEN /\ calls' = [calls EXCEPT ![i].stack[Len(calls[i].stack)] =
                                   [dir |-> top.dir, listed |-> TRUE,
                                    entries |-> Scandir(top.dir)]]
                  /\ last' = last
             ELSE CallRaises(i)
    /\ UNCHANGED <<dirs, files, materials, now, req>>

\* rmtree takes an entry of the listing: a directory is entered, a file unlinked
RmtreeEntry(i) ==
    /\ calls[i].pc = "rmtree"
    /\ \E top \in {calls[i].stack[Len(calls[i].stack)]} :
          /\ top.listed
          /\ \E e \in top.entries :
                \E rest \in {[calls[i].stack EXCEPT ![Len(calls[i].stack)].entries = @ \ {e}]} :
                   IF e.is_dir
                   THEN /\ calls' = [calls EXCEPT ![i].stack = Append(rest, Frame(e.path))]
                        /\ files' = files
                        /\ last' = last
                   ELSE IF e.path \in DOMAIN files
                   THEN /\ files' = Unlink(files, {e.path})
                        /\ calls' = [calls EXCEPT ![i].stack = rest]
                        /\ last' = last
                   ELSE /\ files' = files
                        /\ CallRaises(i)
    /\ UNCHANGED <<dirs, materials, now, req>>

\* rmtree removes the directory whose entries it has gone through: os.rmdir
\* raises when something is in it; after the top directory the call returns True
RmtreeRmdir(i) ==
    /\ calls[i].pc = "rmtree"
    /\ \E top \in {calls[i].stack[Len(calls[i].stack)]} :
          /\ top.listed
          /\ top.entries = {}
          /\ IF top.dir \in dirs /\ Scandir(top.dir) = {}
             THEN /\ dirs' = dirs \ {top.dir}
                  /\ IF Len(calls[i].stack) = 1
                     THEN /\ calls' = [calls EXCEPT ![i].pc = "done", ![i].stack = <<>>]
                          /\ last' = Call(calls[i].op, calls[i].args, TRUE, None, NoPrev)
                     ELSE /\ calls' = [calls EXCEPT ![i].stack =
                                           SubSeq(@, 1, Len(@) - 1)]
                          /\ last' = last
             ELSE /\ dirs' = dirs
                  /\ CallRaises(i)
    /\ UNCHANGED <<files, materials, now, req>>

\* one save into a project and delete_project_files of the project, step by step
NextSaveDelete ==
    \/ ProjectSaveStart(1)
    \/ DeleteStart(2)
    \/ \E i \in Callers :
          \/ CallMkdir(i) \/ CallOpen(i) \/ CallWrite(i)
          \/ DeleteExists(i) \/ RmtreeList(i) \/ RmtreeEntry(i) \/ RmtreeRmdir(i)
SpecSaveDelete == Init /\ [][NextSaveDelete]_vars

----------------------------------------------------------------------------
(* Templates                                                               *)

\* the lower-cased extension of an uploaded file's name as the client sent it
\* (png when it has none)
UploadedExt(filename) ==
    IF Suffix(filename) = <<>> THEN PNG ELSE Lower(Tail(Suffix(filename)))

\* get_template_path(pid) was called right after save_template_image(file, pid)
SaveThenGet == last.op = "get_template_path" /\ last.prev.op = "save_template_image"

\* C1 (as claimed): save_template_image(file, pid) followed by get_template_path(pid)
\* returns a path whose stem is "template" and whose extension is the lower-cased
\* extension of the file just uploaded, whatever was saved for pid before.
C1_TemplatePathMatchesUpload ==
    SaveThenGet =>
        /\ last.ret # None
        /\ Stem(PathName(last.ret)) = TEMPLATE
        /\ Suffix(PathName(last.ret))
               = <<".">> \o UploadedExt(last.prev.args.file.filename)

\* "template." as the layout spells it
TemplateDot == <<"t","e","m","p","l","a","t","e",".">>

\* two calls of save_template_image in a row for one project, the first of them
\* into an empty template directory
TwoSaves ==
    /\ last.op = "save_template_image"
    /\ last.prev.op = "save_template_image"
    /\ last.prev.seen = {}

----------------------------------------------------------------------------
(* Page images                                                             *)

\* '<pid>/pages/<page>_v<N>.<lower-cased format>', as the layout spells it
VersionedPath(a) ==
    a.project_id \o <<"/","p","a","g","e","s","/">> \o a.page_id \o <<"_","v">>
        \o IntStr(a.version_number.n) \o <<".">> \o Lower(a.image_format)

\* C3: save_generated_image(image, pid, page, format, version_number=N) returns
\* '<pid>/pages/<page>_v<N>.<lower-cased format>'; the call, also when it repeats an
\* earlier call with the same pid, page, format and N, sets the content of that one
\* file and leaves every other file of the store as it was.
C3_VersionedSaveTouchesOneFile ==
    [][ (last' # last /\ last'.op = "save_generated_image"
            /\ last'.args.version_number.given)
        => \E target \in {SplitPath(VersionedPath(last'.args))} :
               /\ last'.ret = StrPath(target)
               /\ DOMAIN files' = (DOMAIN files) \cup {target}
               /\ files'[target] = last'.args.image
               /\ \A f \in DOMAIN files : f # target => files'[f] = files[f] ]_vars

\* C3's case: a versioned save replaced the content an earlier save had given the
\* file, while another version of the page, another page and another project
\* have files
C3_Witness ==
    /\ last.op = "save_generated_image"
    /\ last.args.version_number.given
    /\ last.seen # <<>>
    /\ last.seen[1] # last.args.image
    /\ files[SplitPath(last.ret)] = last.args.image
    /\ \E f, g, h \in DOMAIN files :
          /\ f[1] = last.args.project_id /\ f # SplitPath(last.ret)
          /\ IsPrefix(last.args.page_id, f[3])
          /\ g[1] = last.args.project_id /\ ~IsPrefix(last.args.page_id, g[3])
          /\ h[1] # last.args.project_id

\* C4 (as claimed): save_generated_image never overwrites an existing version file
\* with the same disambiguator: when the file it names exists already, the file
\* keeps its content.
C4_NeverOverwritesVersion ==
    (last.op = "save_generated_image" /\ last.seen # <<>>)
        => files[SplitPath(last.ret)] = last.seen[1]

\* C6: delete_page_image_version(path) removes exactly the file at path and returns
\* True when path is a regular file, leaving every other file; returns False and
\* changes nothing when there is no such file; called twice in a row on one path it
\* returns True, then False.
C6_DeleteVersionExactlyOne ==
    [][ (last' # last /\ last'.op = "delete_page_image_version")
        => \E path \in {SplitPath(last'.args.image_path)} :
               /\ last'.ret = (path \in DOMAIN files)
               /\ DOMAIN files' = (DOMAIN files) \ {path}
               /\ \A f \in DOMAIN files' : files'[f] = files[f]
               /\ dirs' = dirs
               /\ (last'.prev.op = "delete_page_image_version" /\ last'.prev.ret)
                     => ~last'.ret ]_vars

\* C6's case: the second of two deletions of one path in a row, the first of which
\* removed the file, with other files in the store
C6_Witness ==
    /\ last.op = "delete_page_image_version"
    /\ last.prev.op = "delete_page_image_version"
    /\ last.prev.ret
    /\ ~last.ret
    /\ DOMAIN files # {}

----------------------------------------------------------------------------
(* Projects                                                                *)

\* the state right after a delete_project_files: no step of a request in flight
\* has been taken since
JustDeleted == last.op = "delete_project_files" /\ req = last.seen.req

\* C5: delete_project_files(pid) removes every file under '<pid>/' in one operation:
\* after it, file_exists is false of every path a save returned for that project
\* (template, page versions, project materials); the files of other projects, the
\* global materials and the user templates are unchanged; and it returns True, also
\* when the project had no directory.
C5_DeleteProjectRemovesSubtree ==
    JustDeleted
        => \E pid \in {last.args.project_id}, before \in {last.seen.before} :
              /\ last.ret = TRUE
              /\ \A f \in DOMAIN before : f[1] = pid => ~file_exists(StrPath(f))
              /\ \A f \in DOMAIN files : f[1] # pid
              /\ \A f \in DOMAIN before :
                    f[1] # pid => f \in DOMAIN files /\ files[f] = before[f]
              /\ DOMAIN files \subseteq DOMAIN before

\* C5's case: the project deleted had a template, a page image and a material, and
\* another project's file, a global material and a user template are still there
C5_Witness ==
    /\ JustDeleted
    /\ \E t, p, m \in DOMAIN last.seen.before :
          /\ {t[1], p[1], m[1]} = {last.args.project_id}
          /\ t[2] = TEMPLATE
          /\ p[2] = PAGES
          /\ m[2] = MATERIALS
    /\ \E f, g, h \in DOMAIN files :
          /\ f[1] \in Projects
          /\ g[1] = MATERIALS
          /\ h[1] = USER_TEMPLATES

\* C5's other case: the project had no directory, and True is returned
C5_WitnessAbsent == JustDeleted /\ ~last.seen.existed /\ last.ret = TRUE /\ files # <<>>

----------------------------------------------------------------------------
(* Materials                                                               *)

UploadOps == {"upload_material", "upload_material_global"}

\* the files of the materials directories
MaterialFiles == {f \in DOMAIN files : Len(f) >= 2 /\ f[Len(f) - 1] = MATERIALS}

\* C7 (as claimed): after any sequence of successful material uploads the Material
\* rows and the material files correspond one to one: every row's relative_path
\* names an existing file, every material file is named by exactly one row, and no
\* two rows share a relative_path.
C7_RowsAndFilesOneToOne ==
    (req.pc = "idle" /\ ~req.faulted) =>
        /\ \A i \in 1..Len(materials) : file_exists(materials[i].relative_path)
        /\ \A f \in MaterialFiles :
              Cardinality({i \in 1..Len(materials) :
                              SplitPath(materials[i].relative_path) = f}) = 1
        /\ \A i, j \in 1..Len(materials) :
              i # j => materials[i].relative_path # materials[j].relative_path

\* two uploads in a row, both stored, into one materials directory, with the same
\* sanitized base name and extension, at two distinct milliseconds
TwoUploadsApart ==
    /\ req.pc = "idle"
    /\ last.op \in UploadOps
    /\ last.ret.status = 201
    /\ last.prev.op \in UploadOps
    /\ LET f1 == secure_filename(last.prev.args.file.filename)
           f2 == secure_filename(last.args.file.filename)
           p1 == SplitPath(last.prev.ret.data.relative_path)
           p2 == SplitPath(last.ret.data.relative_path)
       IN  /\ Stem(f1) = Stem(f2)
           /\ Lower(Suffix(f1)) = Lower(Suffix(f2))
           /\ SubSeq(p1, 1, Len(p1) - 1) = SubSeq(p2, 1, Len(p2) - 1)
    /\ last.prev.seen.timestamp # last.seen.timestamp

\* C8: two material uploads with the same base name and extension into the same
\* materials directory at two distinct millisecond timestamps get two distinct file
\* names '<base>_<timestamp_ms><ext>'; after both, file_exists holds of both relative
\* paths and the first file still has the first upload's content.
C8_DistinctTimestampsDistinctFiles ==
    TwoUploadsApart =>
        LET first == last.prev.ret.data
            second == last.ret.data
            f2 == secure_filename(last.args.file.filename)
        IN  /\ first.filename # second.filename
            /\ second.filename
                  = Stem(f2) \o <<"_">> \o IntStr(last.seen.timestamp) \o Lower(Suffix(f2))
            /\ file_exists(first.relative_path)
            /\ file_exists(second.relative_path)
            /\ files[SplitPath(first.relative_path)] = last.prev.args.file.content
            /\ files[SplitPath(second.relative_path)] = last.args.file.content

\* C8's case: the two uploads differ in content
C8_Witness ==
    /\ TwoUploadsApart
    /\ last.prev.args.file.content # last.args.file.content

\* C9: a Material row is persisted only after its file was written: the table
\* changes only by the commit step adding one row whose file is there, complete;
\* and when the write of the file raises, the handler answers with an error and no
\* row is persisted.
C9_RowOnlyAfterFile ==
    [][ /\ materials' # materials =>
              /\ req.pc = "commit"
              /\ Len(materials') = Len(materials) + 1
              /\ SubSeq(materials', 1, Len(materials)) = materials
              /\ \E path \in {SplitPath(materials'[Len(materials')].relative_path)} :
                    /\ path \in DOMAIN files
                    /\ files[path] = IF req.handler = "generate_material_image"
                                     THEN req.image ELSE req.content
        /\ (req.pc \in {"save", "store"} /\ req'.pc = "idle") =>
              /\ last'.op = req.handler
              /\ last'.ret.error \in {"SERVER_ERROR", "AI_SERVICE_ERROR"}
              /\ last'.ret.status \in {500, 503}
              /\ materials' = materials ]_vars

\* C9's case: the write of an upload raised after an earlier upload was stored
C9_Witness ==
    /\ last.op \in UploadOps
    /\ last.ret.status = 500
    /\ last.seen.stage = "save"
    /\ Len(materials) = 1
    /\ req.pc = "idle"

\* generate_material_image has answered: for an existing project and a non-empty
\* prompt it got an image from the AI service, and nothing raised
Generated ==
    /\ req.pc = "idle"
    /\ last.op = "generate_material_image"
    /\ last.args.project_id \in Projects
    /\ Strip(last.args.prompt, {" "}) # <<>>
    /\ last.seen.image \in Payloads
    /\ ~last.seen.raised

----------------------------------------------------------------------------
(* Urls                                                                    *)

\* the characters of s from position a, n of them
Piece(s, a, n) == SubSeq(s, a, a + n - 1)

\* C11: get_file_url(pid, category, filename) returns exactly
\* '/files/<pid>/<category>/<filename>', character by character, for every input,
\* and the store (directories and files) is what it was before the call.
C11_FileUrlIsLayoutString ==
    last.op = "get_file_url" =>
        \E a \in {last.args}, u \in {last.ret} :
            /\ Len(u) = 7 + Len(a.project_id) + 1 + Len(a.file_type) + 1 + Len(a.filename)
            /\ Piece(u, 1, 6) = <<"/","f","i","l","e","s">>
            /\ u[7] = "/"
            /\ Piece(u, 8, Len(a.project_id)) = a.project_id
            /\ u[8 + Len(a.project_id)] = "/"
            /\ Piece(u, 9 + Len(a.project_id), Len(a.file_type)) = a.file_type
            /\ u[9 + Len(a.project_id) + Len(a.file_type)] = "/"
            /\ Piece(u, 10 + Len(a.project_id) + Len(a.file_type), Len(a.filename))
                   = a.filename
            /\ dirs = last.seen.dirs
            /\ files = last.seen.files

\* C11's case: the url of a page image is asked for while files are stored
C11_Witness ==
    /\ last.op = "get_file_url"
    /\ last.args.file_type = PAGES
    /\ last.args.filename = <<"s","1","_","v","3",".","p","n","g">>
    /\ last.ret = <<"/","f","i","l","e","s","/","p","1","/","p","a","g","e","s","/",
                    "s","1","_","v","3",".","p","n","g">>
    /\ DOMAIN files # {}

\* the files a material row names
RowPath(m) == SplitPath(m.relative_path)

\* C12: the url of a stored file mirrors its location: every Material row has
\* url = '/files/' + relative_path, which is '/files/<pid>/materials/<filename>' for
\* a row with a project and '/files/materials/<filename>' for a row without; and
\* as long as the file at relative_path exists, a GET of the url through the
\* serving routes answers with exactly that file.
C12_UrlMirrorsLocation ==
    \A i \in DOMAIN materials :
        \E m \in {materials[i]} :
            /\ m.url = <<"/","f","i","l","e","s","/">> \o m.relative_path
            /\ RowPath(m) = IF Truthy(m.project_id)
                            THEN <<m.project_id, MATERIALS, m.filename>>
                            ELSE <<MATERIALS, m.filename>>
            /\ RowPath(m) \in DOMAIN files =>
                  Route(m.url) = success_response([path |-> RowPath(m),
                                                   content |-> files[RowPath(m)]], 200)

\* C12's case: the url of a project's material and the url of a global material
\* are rows, the file of one is there and was served, the other's was deleted
C12_Witness ==
    /\ last.op = "serve"
    /\ last.ret.status = 200
    /\ \E i, j \in DOMAIN materials :
          /\ materials[i].url = last.args.url
          /\ Truthy(materials[i].project_id) # Truthy(materials[j].project_id)
          /\ RowPath(materials[i]) \in DOMAIN files
          /\ RowPath(materials[j]) \notin DOMAIN files

----------------------------------------------------------------------------
(* Layout                                                                  *)

SaveOps == {"save_template_image", "save_generated_image", "save_user_template"}

\* name is 'template.<ext>' with an extension that is not empty
IsTemplateName(name) ==
    /\ Len(name) > Len(TemplateDot)
    /\ SubSeq(name, 1, Len(TemplateDot)) = TemplateDot
    /\ ~Contains(SubSeq(name, Len(TemplateDot) + 1, Len(name)), ".")

\* name is '<page>_v<N>.<ext>' or '<page>_<timestamp_ms>.<ext>' for the call's
\* page, version and lower-cased format
IsPageName(name, a) ==
    IF a.version_number.given
    THEN name = a.page_id \o <<"_","v">> \o IntStr(a.version_number.n) \o <<".">>
                  \o Lower(a.image_format)
    ELSE \E t \in 0..MaxClock :
            name = a.page_id \o <<"_">> \o IntStr(t) \o <<".">> \o Lower(a.image_format)

\* the content a save was called with
SavedContent(a) == IF "image" \in DOMAIN a THEN a.image ELSE a.file.content

----------------------------------------------------------------------------
(* Deletes                                                                 *)

\* the state right after a call of op: no step of a request in flight since
JustDone(op) == last.op = op /\ req = last.seen.req

\* the files of before that are not in the store any more
Removed(before) == (DOMAIN before) \ (DOMAIN files)

\* nothing was added, and what was not removed is as it was
OnlyRemoved(before) ==
    /\ DOMAIN files \subseteq DOMAIN before
    /\ \A f \in DOMAIN files : files[f] = before[f]

\* C14: a delete removes the matching files and never siblings: delete_template(pid)
\* removes the files directly in '<pid>/template' and nothing else (the pages and
\* materials of pid, other projects, user templates stay); delete_page_image(pid,
\* page) removes nothing but files '<page>.<...>' of '<pid>/pages', so no file of
\* another page; delete_user_template(tid) removes nothing outside
\* 'user-templates/<tid>'.
C14_DeleteRemovesOnlyMatching ==
    /\ JustDone("delete_template") =>
          /\ OnlyRemoved(last.seen.files)
          /\ Removed(last.seen.files)
                = {f \in DOMAIN last.seen.files :
                      Len(f) = 3 /\ f[1] = last.args.project_id /\ f[2] = TEMPLATE}
    /\ JustDone("delete_page_image") =>
          /\ OnlyRemoved(last.seen.files)
          /\ \A f \in Removed(last.seen.files) :
                /\ Len(f) = 3 /\ f[1] = last.args.project_id /\ f[2] = PAGES
                /\ IsPrefix(last.args.page_id \o <<".">>, f[3])
    /\ JustDone("delete_user_template") =>
          /\ OnlyRemoved(last.seen.files)
          /\ \A f \in Removed(last.seen.files) :
                f[1] = USER_TEMPLATES /\ f[2] = last.args.template_id

\* C14's case: delete_template removed two templates of a project that has page
\* images and a material, while another project has a template
C14_Witness ==
    /\ JustDone("delete_template")
    /\ Cardinality(Removed(last.seen.files)) = 2
    /\ \E f, g, h \in DOMAIN files :
          /\ f[1] = last.args.project_id /\ f[2] = PAGES
          /\ g[1] = last.args.project_id /\ g[2] = MATERIALS
          /\ h[1] # last.args.project_id /\ h[2] = TEMPLATE

\* its other cases: a user template was deleted next to another one, and a page's
\* image was asked to be deleted next to another page's
C14_WitnessSiblings ==
    \/ /\ JustDone("delete_user_template")
       /\ Removed(last.seen.files) # {}
       /\ \E f \in DOMAIN files : f[1] = USER_TEMPLATES
    \/ /\ JustDone("delete_page_image")
       /\ Cardinality({f \in DOMAIN files : f[2] = PAGES}) = 2

\* delete_page_image(pid, page) was called right after save_generated_image for
\* the same pid and page
SaveThenDeletePage == JustDone("delete_page_image") /\ last.prev.op = "save_generated_image"

ReadAndDeleteOps ==
    {"get_template_path", "delete_template", "delete_page_image", "delete_project_files",
     "delete_user_template"}

\* C16 (as claimed): directories are made by saves only: a read or a delete
\* (get_template_path, delete_template, delete_page_image, delete_project_files,
\* delete_user_template) leaves no directory that was not there before it.
C16_ReadsAndDeletesCreateNoDirectory ==
    (last.op \in ReadAndDeleteOps /\ req = last.seen.req) => dirs \subseteq last.seen.dirs

DeleteOps ==
    {"delete_template", "delete_page_image", "delete_project_files", "delete_user_template"}

\* the files a delete is to remove, in the store fs
Targets(fs) ==
    {f \in DOMAIN fs :
        \/ last.op = "delete_template"
             /\ f[1] = last.args.project_id /\ f[2] = TEMPLATE
        \/ last.op = "delete_page_image"
             /\ f[1] = last.args.project_id /\ f[2] = PAGES
             /\ IsPrefix(last.args.page_id \o <<".">>, f[3])
        \/ last.op = "delete_project_files" /\ f[1] = last.args.project_id
        \/ last.op = "delete_user_template"
             /\ f[1] = USER_TEMPLATES /\ f[2] = last.args.template_id}

\* the last two calls were the same delete with the same arguments
DeletedTwice == last.op \in DeleteOps /\ last.prev.op = last.op

\* C17: a delete treats 'already absent' as success: delete_template,
\* delete_page_image, delete_project_files and delete_user_template return True
\* also when there is nothing to delete, and then leave the files as they are; the
\* second of two such calls in a row returns what the first returned and leaves
\* the store (files and directories) as the first left it.
C17_DeleteOfAbsentSucceeds ==
    last.op \in DeleteOps =>
        /\ last.ret = TRUE
        /\ Targets(last.seen.files) = {} => files = last.seen.files
        /\ DeletedTwice =>
              /\ last.ret = last.prev.ret
              /\ files = last.seen.files
              /\ dirs = last.seen.dirs

\* C17's case: the second of two delete_template calls in a row, with files of
\* other kinds in the store
C17_Witness ==
    /\ DeletedTwice
    /\ last.op = "delete_template"
    /\ Targets(last.seen.files) = {}
    /\ DOMAIN files # {}

\* its other cases: the other deletes called twice in a row, and a delete for a
\* project or user template that never had a directory
C17_WitnessOthers ==
    /\ DeletedTwice
    /\ last.op # "delete_template"
    /\ DOMAIN files # {}

----------------------------------------------------------------------------
(* Concurrent callers                                                      *)

\* every caller made a call, and every call has returned or failed
AllReturned == \A i \in Callers : calls[i].pc \in {"done", "failed"}

\* C18: directory creation is safe under concurrent first access: when callers
\* save concurrently into a project, category or user-template directory that does
\* not exist yet, under every interleaving of their mkdir, open and write steps no
\* call fails, and when all have returned the file of each of them is there.
C18_ConcurrentFirstSavesSucceed ==
    /\ \A i \in Callers : calls[i].pc # "failed"
    /\ AllReturned => \A i \in Callers : calls[i].filepath \in DOMAIN files

\* C18's case: two callers started on the empty store, one made the directory
\* the other wanted to make, and both files are there
C18_Witness ==
    /\ AllReturned
    /\ \E i, j \in Callers :
          /\ calls[i].filepath # calls[j].filepath
          /\ SubSeq(calls[i].filepath, 1, 2) = SubSeq(calls[j].filepath, 1, 2)
          /\ calls[i].filepath \in DOMAIN files
          /\ calls[j].filepath \in DOMAIN files

\* all callers saved the same template (of a project, or of a user)
SameTemplate ==
    /\ AllReturned
    /\ \A i \in Callers :
          /\ calls[i].pc = "done"
          /\ calls[i].op \in {"save_template_image", "save_user_template"}
          /\ calls[i].filepath = calls[1].filepath

\* C19 (as claimed): concurrent overwrites of the same template are
\* last-writer-wins: once all the saves have returned, the file holds the complete
\* content of the upload whose write completed last, not a mixture and not the
\* content of a write that completed earlier.
C19_LastWriterWins ==
    SameTemplate => files[calls[1].filepath] = last.args.file.content

----------------------------------------------------------------------------
(* Material rows and projects                                              *)

\* C20 (as claimed): the project of a Material row is null or an existing project,
\* and agrees with where the file is: every row has project_id null and its
\* relative_path in the global 'materials/', or project_id an existing project P
\* and its relative_path in 'P/materials/'.
C20_RowProjectIsNullOrExisting ==
    \A i \in DOMAIN materials :
        \E m \in {materials[i]} :
            \/ /\ m.project_id = None
               /\ Len(RowPath(m)) = 2
               /\ RowPath(m)[1] = MATERIALS
            \/ /\ m.project_id \in Projects
               /\ Len(RowPath(m)) = 3
               /\ RowPath(m)[1] = m.project_id
               /\ RowPath(m)[2] = MATERIALS

----------------------------------------------------------------------------
(* Rejected uploads                                                        *)

\* a step in which an upload handler answered without going on to the file write
UploadAnswersAtOnce ==
    /\ req.pc = "idle"
    /\ req'.pc = "idle"
    /\ req'.n = req.n + 1
    /\ last'.op \in UploadOps

\* C21: a rejected material upload changes nothing: when upload_material or
\* upload_material_global answers not-found (unknown project) or bad-request (no
\* file, empty filename, extension outside the allow-list), the directories, the
\* files and the Material rows are what they were before the request; and a
\* request that is not taken on to the file write is answered with one of the two.
C21_RejectedUploadChangesNothing ==
    [][ UploadAnswersAtOnce =>
            /\ last'.ret.status \in {400, 404}
            /\ dirs' = dirs
            /\ files' = files
            /\ materials' = materials ]_vars

\* C21's case: an upload was rejected as a bad request after another upload was
\* stored, and the store holds that one file and that one row
C21_Witness ==
    /\ req.pc = "idle"
    /\ req.n = 2
    /\ last.op \in UploadOps
    /\ last.ret.status = 400
    /\ Len(materials) = 1
    /\ Cardinality(DOMAIN files) = 1

\* its other case: the project of the request is unknown
C21_WitnessNotFound ==
    /\ req.pc = "idle"
    /\ last.op \in UploadOps
    /\ last.ret.status = 404
    /\ Len(materials) = 1

----------------------------------------------------------------------------
(* The temporary directory of generate_material_image                      *)

\* a generate_material_image request is between mkdtemp and its response
Generating ==
    \/ req.pc \in {"refs", "ai", "store"}
    \/ req.pc = "commit" /\ req.handler = "generate_material_image"

\* the temporary directory, or something in it, exists
TempLeft == TempDir \in dirs \/ \E f \in DOMAIN files : IsPrefix(TempDir, f)

\* C22: generate_material_image never leaves its temporary directory behind:
\* however the request ends after mkdtemp (success, no image from the AI service,
\* an exception while saving the reference images, generating, storing or
\* committing), the temporary directory and the reference images in it do not
\* exist once the response is returned; they exist while the request runs.
C22_TempDirNeverLeft == IF Generating THEN TempDir \in dirs ELSE ~TempLeft

\* C22's case: a request with reference images got its image and then raised
\* (storing or committing), and has returned 503
C22_Witness ==
    /\ req.pc = "idle"
    /\ last.op = "generate_material_image"
    /\ last.args.refs # {}
    /\ last.seen.raised
    /\ last.seen.image \in Payloads
    /\ last.ret.status = 503

\* its other cases: the AI service returned no image; the request succeeded
C22_WitnessNoImage ==
    /\ req.pc = "idle"
    /\ last.op = "generate_material_image"
    /\ last.args.refs # {}
    /\ ~last.seen.raised
    /\ last.ret.status = 503

C22_WitnessSuccess ==
    /\ req.pc = "idle"
    /\ last.op = "generate_material_image"
    /\ last.args.refs # {}
    /\ last.ret.status = 200

\* the reference images are in the temporary directory while the request runs
C22_WitnessRunning ==
    /\ req.pc = "ai"
    /\ Cardinality({f \in DOMAIN files : IsPrefix(TempDir, f)}) = 2

----------------------------------------------------------------------------
(* The namespaces under the root                                           *)

ProjectScopedOps ==
    {"save_template_image", "save_generated_image", "delete_template",
     "delete_page_image", "delete_project_files"}

GlobalOps == {"save_user_template", "delete_user_template", "upload_material_global"}

\* the files with their content under one of the given top-level names
FilesUnder(fs, tops) == {<<f, fs[f]>> : f \in {g \in DOMAIN fs : g[1] \in tops}}

\* C23 (as claimed): the namespaces are disjoint for every project id the store
\* accepts: a project-scoped operation (save_template_image, save_generated_image,
\* delete_template, delete_page_image, delete_project_files) creates, overwrites
\* or deletes no file under materials/ or user-templates/, and a user-template
\* or global-material operation touches no file in a project's subtree.
C23_NamespacesDisjoint ==
    [][ /\ (req' = req /\ last'.op \in ProjectScopedOps)
            => FilesUnder(files', {MATERIALS, USER_TEMPLATES})
                 = FilesUnder(files, {MATERIALS, USER_TEMPLATES})
        /\ ((req' = req /\ last'.op \in GlobalOps) \/ req.pc = "save")
            => FilesUnder(files', StoreProjectIds) = FilesUnder(files, StoreProjectIds)
      ]_vars


\* what the overlap costs: delete_project_files('materials') has removed the file
\* of a global material whose row is still in the table
C23_GlobalMaterialDeleted ==
    /\ last.op = "delete_project_files"
    /\ last.args.project_id = MATERIALS
    /\ \E i \in 1..Len(materials) :
           /\ materials[i].project_id = None
           /\ SplitPath(materials[i].relative_path) \notin DOMAIN files
           /\ SplitPath(materials[i].relative_path) \in DOMAIN last.seen.files

----------------------------------------------------------------------------
(* A save beside delete_project_files                                      *)

\* what is under the project's directory, the directory included
ProjectSubtree(project_id) ==
    [dirs |-> {d \in dirs : IsPrefix(<<project_id>>, d)},
     files |-> {f \in DOMAIN files : IsPrefix(<<project_id>>, f)}]

\* C24 (as claimed): a save into project P running concurrently with
\* delete_project_files(P) is safe under every interleaving of their steps:
\* neither raises, and once both have completed the project's subtree is either
\* entirely gone or holds exactly the file written by the save.
C24_SaveBesideDeleteIsSafe ==
    /\ \A i \in Callers : calls[i].pc # "failed"
    /\ (calls[1].pc = "done" /\ calls[2].pc = "done")
        => \/ ProjectSubtree(<<"p","1">>) = [dirs |-> {}, files |-> {}]
           \/ /\ ProjectSubtree(<<"p","1">>).files = {calls[1].filepath}
              /\ files[calls[1].filepath] = calls[1].content

\* how it fails: the save raises at open() because the directory it made is gone
C24_SaveRaises == calls[1].pc = "failed" /\ calls[2].pc = "done"

\* how it fails: rmtree raises at rmdir because the save put something into a
\* directory after it was listed
C24_DeleteRaises == calls[2].pc = "failed" /\ calls[1].pc = "done"

====
